---- MODULE Spec2Model ----
(***************************************************************************)
(* Model of controllers/grafana/grafana_controller.go: the Reconcile loop  *)
(* of ReconcileGrafana for one target identity, together with the object   *)
(* store, the process-wide controller configuration, the event recorder    *)
(* and the ControllerEvents channel it talks to.                           *)
(*                                                                         *)
(* One action per blocking call of the code (a store Get, a status Update, *)
(* a state read, an action run, a channel send); the local statements      *)
(* around a call belong to the action of that call.                        *)
(***************************************************************************)
EXTENDS Integers, Sequences, FiniteSets, TLC

VARIABLES
    pc,        \* position of the (per identity serialized) Reconcile invocation
    store,     \* the object store's view of the target: exists, spec, status
    stale,     \* TRUE when the store's resourceVersion moved past the one cr carries
    cr,        \* the working copy (instance.DeepCopy()): spec and status
    instance,  \* status of the object returned by the latest re-fetch
    state,     \* the cluster snapshot read by currentState.Read
    issue,     \* the error handed to manageError
    pending,   \* the ControllerState built by manageSuccess, about to be sent
    config,    \* the process-wide ControllerConfig
    events,    \* the contents of the common.ControllerEvents channel
    calls,     \* the external calls of the current invocation, in order
    result,    \* the (reconcile.Result, error) pair of the last return
    written,   \* history: an external write landed since the initial fetch
    lastReady  \* history: GrafanaReady of the latest event sent, "none" before any

vars == <<pc, store, stale, cr, instance, state, issue, pending, config, events,
          calls, result, written, lastReady>>

----------------------------------------------------------------------------
(* Bounds and program constants *)

\* capacity of the ControllerEvents channel buffer
ChanCap == 1

DefaultClientTimeoutSeconds == 5

----------------------------------------------------------------------------
(* Errors *)

ErrNil       == "nil"
ErrNotFound  == "NotFound"
ErrGet       == "GetFailed"
ErrConflict  == "Conflict"
ErrUpdate    == "UpdateFailed"
ErrRead      == "ReadFailed"
ErrRunAll    == "RunAllFailed"
ErrConfigMap == "ConfigMapsFailed"
ErrAdminUrl  == "failed to find admin url"

\* variants of errors.IsNotFound: no error, or every error, counts as NotFound
IsNotFound_Never(err) == FALSE

IsNotFound_Always(err) == TRUE

\* errors.IsNotFound
IsNotFound(err) == err = ErrNotFound

\* errors.IsConflict
IsConflict(err) == err = ErrConflict

----------------------------------------------------------------------------
(* Status values: grafanav1alpha1.GrafanaStatus *)

PhaseNone        == ""
PhaseReconciling == "reconciling"
PhaseFailing     == "failing"

\* a Go slice of dashboard references: nil, or a (possibly empty) list
NilList   == [isNil |-> TRUE,  items |-> <<>>]
EmptyList == [isNil |-> FALSE, items |-> <<>>]
OneList   == [isNil |-> FALSE, items |-> <<"dash1">>]

ZeroStatus == [phase |-> PhaseNone, message |-> "", dashboards |-> NilList]

\* reflect.DeepEqual on two GrafanaStatus values: field by field, and a nil
\* slice differs from an empty one
DeepEqual(a, b) ==
    /\ a.phase = b.phase
    /\ a.message = b.message
    /\ a.dashboards.isNil = b.dashboards.isNil
    /\ a.dashboards.items = b.dashboards.items

----------------------------------------------------------------------------
(* The Grafana object's spec, as far as the controller reads it *)

NoClient == [isNil |-> TRUE, preferService |-> FALSE,
             timeoutIsNil |-> TRUE, timeoutSeconds |-> 0]

\* cr.Spec.Client with the two optional fields the controller reads
Client(prefer, hasTimeout, seconds) ==
    [isNil |-> FALSE, preferService |-> prefer,
     timeoutIsNil |-> ~hasTimeout, timeoutSeconds |-> seconds]

NoIngress == [isNil |-> TRUE, hostname |-> ""]

IngressCfg(host) == [isNil |-> FALSE, hostname |-> host]

GrafanaSpec(client, ingress, selector, port) ==
    [client |-> client, ingress |-> ingress,
     dashboardLabelSelector |-> selector,
     dashboardNamespaceSelector |-> selector,
     port |-> port]

\* the specs the external writer chooses from
CRSpecs ==
    { GrafanaSpec(NoClient, NoIngress, "selA", 3000),
      GrafanaSpec(Client(TRUE, TRUE, -1), IngressCfg("grafana.example"), "selB", 3000) }

Namespace == "ns"

NoCR == [spec |-> GrafanaSpec(NoClient, NoIngress, "", 0), status |-> ZeroStatus]

\* cr.GetPreferServiceValue()
GetPreferServiceValue(c) == ~c.spec.client.isNil /\ c.spec.client.preferService

\* model.GetGrafanaPort(cr)
GetGrafanaPort(c) == c.spec.port

----------------------------------------------------------------------------
(* The cluster snapshot: common.ClusterState *)

NoRoute   == [isNil |-> TRUE, host |-> ""]
Route(h)  == [isNil |-> FALSE, host |-> h]
NoIngressRes == [isNil |-> TRUE, lb |-> <<>>]
IngressRes(lb) == [isNil |-> FALSE, lb |-> lb]
Endpoint(h, ip) == [hostname |-> h, ip |-> ip]
NoService == [isNil |-> TRUE, name |-> ""]
Service(n) == [isNil |-> FALSE, name |-> n]

ClusterState(route, ingress, service) ==
    [GrafanaRoute |-> route, GrafanaIngress |-> ingress, GrafanaService |-> service]

NoState == ClusterState(NoRoute, NoIngressRes, NoService)

\* the snapshots currentState.Read may produce
Snapshots ==
    { NoState,
      ClusterState(NoRoute, NoIngressRes, Service("g")),
      ClusterState(Route("route.example"),
                   IngressRes(<<Endpoint("", "10.0.0.5")>>), Service("g")) }

----------------------------------------------------------------------------
(* getGrafanaAdminUrl: a result is [url, err]; a URL is the tuple of the    *)
(* pieces fmt.Sprintf joins                                                 *)

\* variant of lines 192-193: the service URL is built like the external ones
HttpSvc_Https(name, ns, port) == <<"https://", name, ".", ns, ".svc.cluster.local:", port>>

Https(host) == <<"https://", host>>
HttpSvc(name, ns, port) == <<"http://", name, ".", ns, ".svc.cluster.local:", port>>
NoUrl == <<>>

\* variant of lines 167-186: the ingress is tried before the route
getGrafanaAdminUrl_IngressFirst(c, st) ==
    LET preferService == GetPreferServiceValue(c) IN
    IF /\ ~st.GrafanaIngress.isNil /\ ~preferService
       /\ ~c.spec.ingress.isNil /\ c.spec.ingress.hostname # ""
    THEN [url |-> Https(c.spec.ingress.hostname), err |-> ErrNil]
    ELSE IF /\ ~st.GrafanaIngress.isNil /\ ~preferService
            /\ Len(st.GrafanaIngress.lb) > 0
    THEN LET ingress == st.GrafanaIngress.lb[1] IN
         IF ingress.hostname # ""
         THEN [url |-> Https(ingress.hostname), err |-> ErrNil]
         ELSE [url |-> Https(ingress.ip), err |-> ErrNil]
    ELSE IF ~st.GrafanaRoute.isNil /\ ~preferService
    THEN [url |-> Https(st.GrafanaRoute.host), err |-> ErrNil]
    ELSE IF ~st.GrafanaService.isNil
    THEN [url |-> HttpSvc(st.GrafanaService.name, Namespace, GetGrafanaPort(c)),
          err |-> ErrNil]
    ELSE [url |-> NoUrl, err |-> ErrAdminUrl]

getGrafanaAdminUrl(c, st) ==
    LET preferService == GetPreferServiceValue(c) IN
    IF ~st.GrafanaRoute.isNil /\ ~preferService
    THEN [url |-> Https(st.GrafanaRoute.host), err |-> ErrNil]
    ELSE IF /\ ~st.GrafanaIngress.isNil /\ ~preferService
            /\ ~c.spec.ingress.isNil /\ c.spec.ingress.hostname # ""
    THEN [url |-> Https(c.spec.ingress.hostname), err |-> ErrNil]
    ELSE IF /\ ~st.GrafanaIngress.isNil /\ ~preferService
            /\ Len(st.GrafanaIngress.lb) > 0
    THEN LET ingress == st.GrafanaIngress.lb[1] IN
         IF ingress.hostname # ""
         THEN [url |-> Https(ingress.hostname), err |-> ErrNil]
         ELSE [url |-> Https(ingress.ip), err |-> ErrNil]
    ELSE IF ~st.GrafanaService.isNil
    THEN [url |-> HttpSvc(st.GrafanaService.name, Namespace, GetGrafanaPort(c)),
          err |-> ErrNil]
    ELSE [url |-> NoUrl, err |-> ErrAdminUrl]

----------------------------------------------------------------------------
(* common.ControllerState, the value sent on ControllerEvents *)

\* variant of lines 88-90: the state sent claims readiness
NotReadyState_Ready ==
    [DashboardSelectors |-> "", DashboardNamespaceSelector |-> "",
     AdminUrl |-> NoUrl, GrafanaReady |-> TRUE, ClientTimeout |-> 0]

\* ControllerState{GrafanaReady: false}: every other field is its zero value
NotReadyState ==
    [DashboardSelectors |-> "", DashboardNamespaceSelector |-> "",
     AdminUrl |-> NoUrl, GrafanaReady |-> FALSE, ClientTimeout |-> 0]

\* variant of lines 240-246: a negative override is passed on as it is
ClientTimeoutOf_NegativeKept(c) ==
    IF ~c.spec.client.isNil /\ ~c.spec.client.timeoutIsNil
    THEN c.spec.client.timeoutSeconds
    ELSE DefaultClientTimeoutSeconds

\* the timeout of lines 237-246
ClientTimeoutOf(c) ==
    IF ~c.spec.client.isNil /\ ~c.spec.client.timeoutIsNil
    THEN IF c.spec.client.timeoutSeconds < 0
         THEN DefaultClientTimeoutSeconds
         ELSE c.spec.client.timeoutSeconds
    ELSE DefaultClientTimeoutSeconds

\* variant of lines 232-238: the resolved URL is left out of the state
ReadyState_NoUrl(c, url) ==
    [DashboardSelectors |-> c.spec.dashboardLabelSelector,
     DashboardNamespaceSelector |-> c.spec.dashboardNamespaceSelector,
     AdminUrl |-> NoUrl, GrafanaReady |-> TRUE,
     ClientTimeout |-> ClientTimeoutOf(c)]

ReadyState(c, url) ==
    [DashboardSelectors |-> c.spec.dashboardLabelSelector,
     DashboardNamespaceSelector |-> c.spec.dashboardNamespaceSelector,
     AdminUrl |-> url, GrafanaReady |-> TRUE,
     ClientTimeout |-> ClientTimeoutOf(c)]

----------------------------------------------------------------------------
(* config.ControllerConfig: the dashboard label selector key, the           *)
(* "dashboards synced" flag, the dashboard inventory, and whether the       *)
(* cached dashboard data is currently discarded                             *)

\* r.Config.RemoveConfigItem(config.ConfigDashboardLabelSelector)
RemoveConfigItem(cfg) == [cfg EXCEPT !.labelSelector = FALSE]

\* r.Config.Cleanup(true)
Cleanup(cfg) == [cfg EXCEPT !.discarded = TRUE]

\* r.Config.InvalidateDashboards()
InvalidateDashboards(cfg) == [cfg EXCEPT !.discarded = TRUE]

\* r.Config.GetConfigBool(config.ConfigGrafanaDashboardsSynced, false)
DashboardsSynced(cfg) == cfg.synced

\* r.Config.SetDashboards(list)
SetDashboards(cfg, list) == [cfg EXCEPT !.dashboards = list]

----------------------------------------------------------------------------
(* The state after NewReconciler: nothing reconciled yet, an empty channel,  *)
(* an empty configuration; the target may or may not exist in the store      *)

Absent == [exists |-> FALSE, spec |-> NoCR.spec, status |-> ZeroStatus]

Stored(spec, status) == [exists |-> TRUE, spec |-> spec, status |-> status]

\* reconcile.Result{} and reconcile.Result{RequeueAfter: config.RequeueDelay}
RequeueNone  == "none"
RequeueDelay == "config.RequeueDelay"

NoResult == [requeueAfter |-> RequeueNone, err |-> ErrNil]

InitConfig ==
    [labelSelector |-> FALSE, synced |-> FALSE, dashboards |-> NilList,
     discarded |-> FALSE]

Init ==
    /\ pc = "idle"
    /\ store \in {Absent} \cup {Stored(s, ZeroStatus) : s \in CRSpecs}
    /\ stale = FALSE
    /\ cr = NoCR
    /\ instance = ZeroStatus
    /\ state = NoState
    /\ issue = ErrNil
    /\ pending = NotReadyState
    /\ config = InitConfig
    /\ events = <<>>
    /\ calls = <<>>
    /\ result = NoResult
    /\ written = FALSE
    /\ lastReady = "none"

----------------------------------------------------------------------------
(* Helpers shared by the actions *)

Call(op, res) == <<op, res>>

\* r.Client.Get(r.Context, request.NamespacedName, instance)
GetOutcomes == {IF store.exists THEN ErrNil ELSE ErrNotFound, ErrGet}

\* r.Client.Status().Update(r.Context, cr) against a store with optimistic
\* concurrency: a missing object is NotFound, an outdated resourceVersion is
\* a conflict, and any call may fail for another reason
UpdateOutcomes ==
    {IF ~store.exists THEN ErrNotFound
     ELSE IF stale THEN ErrConflict ELSE ErrNil,
     ErrUpdate}

\* a `return result, err` of Reconcile: the invocation's locals are gone
Return(requeue, err) ==
    /\ pc' = "done"
    /\ result' = [requeueAfter |-> requeue, err |-> err]
    /\ cr' = NoCR
    /\ instance' = ZeroStatus
    /\ state' = NoState
    /\ issue' = ErrNil
    /\ pending' = NotReadyState

\* `return r.manageError(cr, err, request)`
CallManageError(err) ==
    /\ pc' = "manageError"
    /\ issue' = err

\* `common.ControllerEvents <- st`: a send blocks while the buffer is full
Send(st) ==
    /\ Len(events) < ChanCap
    /\ events' = Append(events, st)
    /\ calls' = Append(calls, Call("Send", IF st.GrafanaReady THEN "true" ELSE "false"))
    /\ lastReady' = IF st.GrafanaReady THEN "true" ELSE "false"

----------------------------------------------------------------------------
(* Reconcile, lines 79-126 *)

\* the delivery layer invokes Reconcile for the identity
Trigger ==
    /\ pc \in {"idle", "done"}
    /\ pc' = "fetch"
    /\ calls' = <<>>
    /\ result' = NoResult
    /\ UNCHANGED <<store, stale, written, cr, instance, state, issue, pending, config, events, lastReady>>

\* lines 80-97: the initial fetch
Fetch ==
    /\ pc = "fetch"
    /\ \E err \in GetOutcomes :
        IF err # ErrNil
        THEN IF IsNotFound(err)
             THEN /\ config' = Cleanup(RemoveConfigItem(config))
                  /\ calls' = calls \o <<Call("Get", err),
                                         Call("RemoveConfigItem", "dashboardLabelSelector"),
                                         Call("Cleanup", "true")>>
                  /\ pc' = "notFoundSend"
                  /\ UNCHANGED <<store, stale, written, cr, instance, state, issue, pending,
                                 events, lastReady, result>>
             ELSE /\ calls' = Append(calls, Call("Get", err))
                  /\ Return(RequeueNone, err)
                  /\ UNCHANGED <<store, stale, written, config, events, lastReady>>
        ELSE /\ cr' = [spec |-> store.spec, status |-> store.status]
             /\ stale' = FALSE
             /\ written' = FALSE
             /\ calls' = Append(calls, Call("Get", err))
             /\ pc' = "read"
             /\ UNCHANGED <<store, instance, state, issue, pending, config, events, lastReady,
                            result>>

\* lines 88-92: the send of the not-found path and its return
NotFoundSend ==
    /\ pc = "notFoundSend"
    /\ Send(NotReadyState)
    /\ Return(RequeueNone, ErrNil)
    /\ UNCHANGED <<store, stale, written, config>>

\* lines 100-105: currentState.Read
ReadState ==
    /\ pc = "read"
    /\ \E err \in {ErrNil, ErrRead} :
        /\ calls' = Append(calls, Call("Read", err))
        /\ IF err # ErrNil
           THEN CallManageError(err) /\ UNCHANGED state
           ELSE /\ \E s \in Snapshots : state' = s
                /\ pc' = "runAll"
                /\ UNCHANGED issue
    /\ UNCHANGED <<store, stale, written, cr, instance, pending, config, events, lastReady, result>>

\* lines 109-117: the plan and actionRunner.RunAll
RunAll ==
    /\ pc = "runAll"
    /\ \E err \in {ErrNil, ErrRunAll} :
        /\ calls' = Append(calls, Call("RunAll", err))
        /\ IF err # ErrNil
           THEN CallManageError(err)
           ELSE pc' = "configMaps" /\ UNCHANGED issue
    /\ UNCHANGED <<store, stale, written, cr, instance, state, pending, config, events, lastReady, result>>

\* lines 120-125: reconcileConfigMaps
ReconcileConfigMaps ==
    /\ pc = "configMaps"
    /\ \E err \in {ErrNil, ErrConfigMap} :
        /\ calls' = Append(calls, Call("ConfigMaps", err))
        /\ IF err # ErrNil
           THEN CallManageError(err)
           ELSE pc' = "manageSuccess" /\ UNCHANGED issue
    /\ UNCHANGED <<store, stale, written, cr, instance, state, pending, config, events, lastReady, result>>

----------------------------------------------------------------------------
(* manageSuccess, lines 199-253 *)

\* variant of lines 205-207: the inventory is copied whatever the synced flag says
SuccessStatus_AlwaysInventory(c, cfg) ==
    [phase |-> PhaseReconciling, message |-> "success", dashboards |-> cfg.dashboards]

\* lines 200-207: the status computed on the working copy
SuccessStatus(c, cfg) ==
    [phase |-> PhaseReconciling,
     message |-> "success",
     dashboards |-> IF DashboardsSynced(cfg) THEN cfg.dashboards
                    ELSE c.status.dashboards]

\* lines 205-211: the inventory gets an empty list when nothing synced it yet
SuccessConfig(cfg) ==
    IF ~DashboardsSynced(cfg) /\ cfg.dashboards.isNil
    THEN SetDashboards(cfg, EmptyList)
    ELSE cfg

\* variant of the write gate: the status is written on every cycle
NeedsWrite_Always(computed, fetched) == TRUE

\* lines 139 and 219: the status write is needed
NeedsWrite(computed, fetched) == ~DeepEqual(computed, fetched)

\* variant of lines 133-134 and 213-214: the write goes out with the
\* resourceVersion of the object just re-fetched
RefetchStale_Adopts(s) == FALSE

\* lines 133-134 and 213-214: the re-fetch reads into a fresh `instance`; cr,
\* which the Update sends, keeps the resourceVersion of the initial fetch
RefetchStale(s) == s

\* lines 200-219: compute the status, re-fetch, compare
ManageSuccess ==
    /\ pc = "manageSuccess"
    /\ cr' = [cr EXCEPT !.status = SuccessStatus(cr, config)]
    /\ config' = SuccessConfig(config)
    /\ \E err \in GetOutcomes :
        /\ calls' = Append(calls, Call("Get", err))
        /\ IF err # ErrNil
           THEN CallManageError(err) /\ UNCHANGED instance
           ELSE /\ instance' = store.status
                /\ pc' = IF NeedsWrite(cr'.status, instance') THEN "successUpdate"
                         ELSE "adminUrl"
                /\ UNCHANGED issue
    /\ stale' = RefetchStale(stale)
    /\ UNCHANGED <<store, written, state, pending, events, lastReady, result>>

\* lines 220-223: the status write of the success path
SuccessUpdate ==
    /\ pc = "successUpdate"
    /\ \E err \in UpdateOutcomes :
        /\ calls' = Append(calls, Call("Update", err))
        /\ IF err # ErrNil
           THEN CallManageError(err) /\ UNCHANGED store
           ELSE /\ store' = [store EXCEPT !.status = cr.status]
                /\ pc' = "adminUrl"
                /\ UNCHANGED issue
    /\ UNCHANGED <<stale, written, cr, instance, state, pending, config, events, lastReady, result>>

\* lines 226-246: resolve the admin URL and build the ControllerState
AdminUrl ==
    /\ pc = "adminUrl"
    /\ LET r == getGrafanaAdminUrl(cr, state) IN
        /\ calls' = Append(calls, Call("AdminUrl", r.err))
        /\ IF r.err # ErrNil
           THEN CallManageError(r.err) /\ UNCHANGED pending
           ELSE /\ pending' = ReadyState(cr, r.url)
                /\ pc' = "successSend"
                /\ UNCHANGED issue
    /\ UNCHANGED <<store, stale, written, cr, instance, state, config, events, lastReady, result>>

\* variant of lines 219-252: the state is sent before the status is written
SuccessSend_ThenWrite ==
    /\ pc = "successSend"
    /\ Send(pending)
    /\ pc' = "successUpdate"
    /\ UNCHANGED <<store, stale, written, cr, instance, state, issue, pending, config,
                   result>>

\* lines 248-252: the send of the success path and its return
SuccessSend ==
    /\ pc = "successSend"
    /\ Send(pending)
    /\ Return(RequeueDelay, ErrNil)
    /\ UNCHANGED <<store, stale, written, config>>

----------------------------------------------------------------------------
(* manageError, lines 128-157 *)

\* variant of lines 130-131: the phase is not set
ErrorStatus_PhaseKept(c, err) ==
    [phase |-> c.status.phase, message |-> err, dashboards |-> c.status.dashboards]

\* lines 130-131
ErrorStatus(c, err) ==
    [phase |-> PhaseFailing, message |-> err, dashboards |-> c.status.dashboards]

\* variant of lines 141-146: the conflict is returned like any other error
UpdateFailure_Unswallowed(err) == err

\* lines 141-146: what manageError returns when its status write failed
UpdateFailure(err) == IF IsConflict(err) THEN ErrNil ELSE err

\* lines 129-139: record the warning, compute the status, re-fetch, compare
ManageError ==
    /\ pc = "manageError"
    /\ \E err \in GetOutcomes :
        /\ calls' = calls \o <<Call("Warning", issue), Call("Get", err)>>
        /\ IF err # ErrNil
           THEN Return(RequeueNone, err)
           ELSE /\ cr' = [cr EXCEPT !.status = ErrorStatus(cr, issue)]
                /\ instance' = store.status
                /\ pc' = IF NeedsWrite(cr'.status, instance') THEN "errorUpdate"
                         ELSE "invalidate"
                /\ UNCHANGED <<state, issue, pending, result>>
    /\ stale' = RefetchStale(stale)
    /\ UNCHANGED <<store, written, config, events, lastReady>>

\* lines 140-147: the status write of the error path
ErrorUpdate ==
    /\ pc = "errorUpdate"
    /\ \E err \in UpdateOutcomes :
        /\ calls' = Append(calls, Call("Update", err))
        /\ IF err # ErrNil
           THEN Return(RequeueNone, UpdateFailure(err)) /\ UNCHANGED store
           ELSE /\ store' = [store EXCEPT !.status = cr.status]
                /\ pc' = "invalidate"
                /\ UNCHANGED <<cr, instance, state, issue, pending, result>>
    /\ UNCHANGED <<stale, written, config, events, lastReady>>

\* line 150
Invalidate ==
    /\ pc = "invalidate"
    /\ config' = InvalidateDashboards(config)
    /\ calls' = Append(calls, Call("InvalidateDashboards", ""))
    /\ pc' = "errorSend"
    /\ UNCHANGED <<store, stale, written, cr, instance, state, issue, pending, events, lastReady, result>>

\* lines 152-156: the send of the error path and its return
ErrorSend ==
    /\ pc = "errorSend"
    /\ Send(NotReadyState)
    /\ Return(RequeueDelay, ErrNil)
    /\ UNCHANGED <<store, stale, written, config>>

----------------------------------------------------------------------------
(* The environment: the channel's consumer, external writers of the target, *)
(* and the sibling controllers that share the configuration                 *)

\* a downstream controller receives from ControllerEvents
Consume ==
    /\ events # <<>>
    /\ events' = Tail(events)
    /\ UNCHANGED <<pc, store, stale, written, cr, instance, state, issue, pending, config,
                   lastReady,
                   calls, result>>

\* the target is created
ExternalCreate ==
    /\ ~store.exists
    /\ \E s \in CRSpecs : store' = Stored(s, ZeroStatus)
    /\ stale' = TRUE
    /\ written' = TRUE
    /\ UNCHANGED <<pc, cr, instance, state, issue, pending, config, events, lastReady, calls,
                   result>>

\* the target's spec or metadata is written: its resourceVersion moves on
ExternalUpdate ==
    /\ store.exists
    /\ \E s \in CRSpecs : store' = [store EXCEPT !.spec = s]
    /\ stale' = TRUE
    /\ written' = TRUE
    /\ UNCHANGED <<pc, cr, instance, state, issue, pending, config, events, lastReady, calls,
                   result>>

\* the target is deleted
ExternalDelete ==
    /\ store.exists
    /\ store' = Absent
    /\ stale' = TRUE
    /\ written' = TRUE
    /\ UNCHANGED <<pc, cr, instance, state, issue, pending, config, events, lastReady, calls,
                   result>>

\* the dashboard label selector key is put into the configuration
AddConfigItem ==
    /\ ~config.labelSelector
    /\ config' = [config EXCEPT !.labelSelector = TRUE]
    /\ UNCHANGED <<pc, store, stale, written, cr, instance, state, issue, pending, events, lastReady,
                   calls, result>>

\* the dashboard controller syncs the cluster's dashboards
DashboardSync ==
    /\ \E list \in {EmptyList, OneList} :
        config' = [config EXCEPT !.synced = TRUE, !.dashboards = list,
                                 !.discarded = FALSE]
    /\ UNCHANGED <<pc, store, stale, written, cr, instance, state, issue, pending, events, lastReady,
                   calls, result>>

----------------------------------------------------------------------------
(* Specifications *)

Controller ==
    \/ Trigger
    \/ Fetch
    \/ NotFoundSend
    \/ ReadState
    \/ RunAll
    \/ ReconcileConfigMaps
    \/ ManageSuccess
    \/ SuccessUpdate
    \/ AdminUrl
    \/ SuccessSend
    \/ ManageError
    \/ ErrorUpdate
    \/ Invalidate
    \/ ErrorSend

Environment ==
    \/ ExternalCreate
    \/ ExternalUpdate
    \/ ExternalDelete
    \/ AddConfigItem
    \/ DashboardSync

Next == Controller \/ Environment \/ Consume

Spec == Init /\ [][Next]_vars

\* The resolver and the timeout on their own: manageSuccess from the point
\* where the status is in sync, for every combination of spec and snapshot

\* longest list of load-balancer endpoints an ingress reports
MaxEndpoints == 2

Endpoints ==
    { Endpoint("lb.example", "10.0.0.5"),
      Endpoint("", "10.0.0.5"),
      Endpoint("second.example", "10.0.0.6") }

EndpointLists == UNION {[1..n -> Endpoints] : n \in 0..MaxEndpoints}

ResolveSnapshots ==
    { ClusterState(r, i, sv) :
        r \in {NoRoute, Route("route.example")},
        i \in {NoIngressRes} \cup {IngressRes(lb) : lb \in EndpointLists},
        sv \in {NoService, Service("g")} }

ResolveClients ==
    {NoClient} \cup {Client(p, FALSE, 0) : p \in BOOLEAN}
               \cup {Client(p, TRUE, t) : p \in BOOLEAN, t \in {-1, 0, 30}}

ResolveSpecs ==
    { GrafanaSpec(c, i, "selA", 3000) :
        c \in ResolveClients,
        i \in {NoIngress, IngressCfg(""), IngressCfg("grafana.example")} }

SyncedStatus ==
    [phase |-> PhaseReconciling, message |-> "success", dashboards |-> NilList]

\* manageSuccess at line 225: the stored status already equals the computed one
InitResolve ==
    /\ pc = "adminUrl"
    /\ \E sp \in ResolveSpecs :
        /\ store = Stored(sp, SyncedStatus)
        /\ cr = [spec |-> sp, status |-> SyncedStatus]
    /\ stale = FALSE
    /\ instance = SyncedStatus
    /\ state \in ResolveSnapshots
    /\ issue = ErrNil
    /\ pending = NotReadyState
    /\ config = [InitConfig EXCEPT !.dashboards = EmptyList]
    /\ events = <<>>
    /\ calls = <<Call("Get", ErrNil), Call("Read", ErrNil), Call("RunAll", ErrNil),
                 Call("ConfigMaps", ErrNil), Call("Get", ErrNil)>>
    /\ result = NoResult
    /\ written = FALSE
    /\ lastReady = "none"

NextResolve == AdminUrl \/ SuccessSend

SpecResolve == InitResolve /\ [][NextResolve]_vars

\* no downstream controller ever receives from the channel
NextNoConsumer == Controller \/ Environment

SpecNoConsumer == Init /\ [][NextNoConsumer]_vars

----------------------------------------------------------------------------
(* Reading the invocation's call sequence *)

Last(cs) == cs[Len(cs)]

CountIn(cs, op) == Cardinality({i \in 1..Len(cs) : cs[i][1] = op})

HasIn(cs, c) == \E i \in 1..Len(cs) : cs[i] = c

Done == pc = "done"

SendPCs == {"notFoundSend", "successSend", "errorSend"}

\* the invocation started with a fetch that gave `err`
FirstFetch(cs, err) == Len(cs) > 0 /\ cs[1] = Call("Get", err)

\* index of the Recorder.Event call, 0 if manageError was never entered
WarningAt(cs) ==
    IF \E i \in 1..Len(cs) : cs[i][1] = "Warning"
    THEN CHOOSE i \in 1..Len(cs) : cs[i][1] = "Warning"
    ELSE 0

\* the calls whose failure is a recoverable one: snapshot read, action apply,
\* auxiliary discovery, URL resolution, and a non-conflict failure of the
\* success path's status write
RecoverableAt(cs) ==
    {i \in 1..Len(cs) :
        \/ cs[i][1] \in {"Read", "RunAll", "ConfigMaps", "AdminUrl"} /\ cs[i][2] # ErrNil
        \/ /\ cs[i][1] = "Update" /\ cs[i][2] \notin {ErrNil, ErrConflict}
           /\ (WarningAt(cs) = 0 \/ WarningAt(cs) > i)}

\* the error path's own re-fetch succeeded
ErrorRefetchOk(cs) ==
    /\ WarningAt(cs) > 0
    /\ Len(cs) > WarningAt(cs)
    /\ cs[WarningAt(cs) + 1] = Call("Get", ErrNil)

----------------------------------------------------------------------------
(* Claims *)

\* C1: every invocation that returns on the success, error or not-found path
\* has sent exactly one readiness event; one whose initial fetch failed with
\* another error has sent none.
C1_ExactlyOneEvent ==
    Done => IF FirstFetch(calls, ErrGet)
            THEN CountIn(calls, "Send") = 0
            ELSE CountIn(calls, "Send") = 1

\* C2: with no consumer at all, an invocation that reaches a send is never
\* held there: the channel has room whenever a send is reached. (Nothing
\* empties the channel under SpecNoConsumer, so a full buffer at a send is a
\* permanent block.)
C2_SendNeverBlocks == pc \in SendPCs => Len(events) < ChanCap

\* C3: an invocation with a recoverable failure whose error-path re-fetch
\* succeeded returns the fixed requeue delay and no error.
C3_RecoverableRequeues ==
    (Done /\ RecoverableAt(calls) # {} /\ ErrorRefetchOk(calls))
        => result = [requeueAfter |-> RequeueDelay, err |-> ErrNil]

\* C4: a status Update is issued, on either path, only when the status
\* computed on the working copy differs from the status just re-fetched.
C4_IdempotentWrite ==
    (\/ pc \in {"successUpdate", "errorUpdate"}
     \/ (~Done /\ Len(calls) > 0 /\ Last(calls)[1] = "Update"))
        => ~DeepEqual(cr.status, instance)

C4_Witness ==
    /\ pc = "adminUrl"
    /\ Last(calls) = Call("Get", ErrNil)
    /\ DeepEqual(cr.status, instance)
    /\ CountIn(calls, "Update") = 0

\* C5: an invocation whose initial fetch is NotFound removes the dashboard
\* label selector key, calls Cleanup(true), sends exactly one event with
\* GrafanaReady=false, writes no status, and returns no error and no requeue.
C5_DeletionCleanup ==
    [][/\ ((pc = "fetch" /\ pc' # "fetch" /\ FirstFetch(calls', ErrNotFound))
            => (/\ ~config'.labelSelector /\ config'.discarded
                /\ pc' = "notFoundSend"))
       /\ ((Done' /\ ~Done /\ FirstFetch(calls', ErrNotFound))
            => (/\ calls' = <<Call("Get", ErrNotFound),
                              Call("RemoveConfigItem", "dashboardLabelSelector"),
                              Call("Cleanup", "true"),
                              Call("Send", "false")>>
                /\ events' = Append(events, NotReadyState)
                /\ result' = [requeueAfter |-> RequeueNone, err |-> ErrNil]
                /\ store' = store))]_vars

C5_Witness ==
    /\ Done
    /\ FirstFetch(calls, ErrNotFound)
    /\ Last(calls) = Call("Send", "false")

\* C6: a conflict of a status write is never what an invocation returns: the
\* returned error is nil, or the non-conflict error of a fetch or write that
\* failed in the same invocation.
C6_ConflictSwallowed ==
    (Done /\ HasIn(calls, Call("Update", ErrConflict)))
        => /\ ~IsConflict(result.err)
           /\ (result.err # ErrNil
                => \E i \in 1..Len(calls) :
                      calls[i][1] \in {"Get", "Update"} /\ calls[i][2] = result.err)

C6_Witness ==
    /\ Done
    /\ Last(calls) = Call("Update", ErrConflict)
    /\ CountIn(calls, "Warning") = 1
    /\ result.err = ErrNil

\* C7: a conflict of a status write never routes the cycle to the error path.
C7_ConflictNeverErrorPath == pc = "manageError" => ~IsConflict(issue)

\* C8: an initial fetch failing with an error other than NotFound returns
\* that error with an empty requeue directive and does nothing else: no
\* status write, no warning, no configuration change, no event.
C8_FatalFetch ==
    [][(pc = "fetch" /\ pc' # "fetch" /\ FirstFetch(calls', ErrGet))
            => (/\ Done'
                /\ result' = [requeueAfter |-> RequeueNone, err |-> ErrGet]
                /\ calls' = <<Call("Get", ErrGet)>>
                /\ UNCHANGED <<store, config, events>>)]_vars

C8_Witness ==
    /\ Done
    /\ calls = <<Call("Get", ErrGet)>>
    /\ result.err = ErrGet
    /\ config.labelSelector

\* C9 as stated: after an invocation with a recoverable failure exactly one
\* warning is recorded and the stored status is Failing with the error text.
C9_FailureSurfaces ==
    (Done /\ RecoverableAt(calls) # {})
        => /\ CountIn(calls, "Warning") = 1
           /\ \A i \in RecoverableAt(calls) :
                 /\ store.exists
                 /\ store.status.phase = PhaseFailing
                 /\ store.status.message = calls[i][2]

\* C9 amended: an invocation with a recoverable failure records exactly one
\* warning, with the failure's error text, right after the failure; and when
\* the error path gets past its status step (the re-fetched status was equal
\* or the write succeeded) the stored status is, at that moment, Failing
\* with the failure's error text.
C9_FailureSurfacesWhenWritten ==
    [][/\ ((Done' /\ ~Done)
            => \A i \in RecoverableAt(calls') :
                  /\ CountIn(calls', "Warning") = 1
                  /\ calls'[i + 1] = Call("Warning", calls'[i][2]))
       /\ ((pc' = "invalidate" /\ pc # "invalidate")
            => (/\ store'.exists
                /\ store'.status.phase = PhaseFailing
                /\ store'.status.message = calls'[WarningAt(calls')][2]))]_vars

C9_Witness ==
    /\ pc = "invalidate"
    /\ Last(calls) = Call("Update", ErrNil)
    /\ RecoverableAt(calls) # {}
    /\ store.status.phase = PhaseFailing

\* C10 as stated: a NotFound from any fetch of the invocation, the initial
\* one or a re-fetch, has the selector key removed and Cleanup called before
\* the invocation returns.
C10_AnyNotFoundCleansUp ==
    (Done /\ HasIn(calls, Call("Get", ErrNotFound)))
        => /\ HasIn(calls, Call("RemoveConfigItem", "dashboardLabelSelector"))
           /\ HasIn(calls, Call("Cleanup", "true"))

\* C10 amended: a NotFound from the initial fetch has the key removed and
\* the configuration cleaned up in that step; a NotFound from a re-fetch
\* removes and cleans up nothing: it enters manageError (success path) or is
\* returned as the error with an empty requeue directive (error path).
C10_InitialNotFoundCleansUp ==
    [][/\ ((pc = "fetch" /\ pc' # "fetch" /\ FirstFetch(calls', ErrNotFound))
            => (/\ config' = Cleanup(RemoveConfigItem(config))
                /\ ~config'.labelSelector))
       /\ ((pc \in {"manageSuccess", "manageError"} /\ pc' # pc
            /\ Last(calls') = Call("Get", ErrNotFound))
            => (/\ config'.labelSelector = config.labelSelector
                /\ config'.discarded = config.discarded
                /\ CountIn(calls', "RemoveConfigItem") = 0
                /\ CountIn(calls', "Cleanup") = 0
                /\ IF pc = "manageSuccess"
                   THEN pc' = "manageError" /\ issue' = ErrNotFound
                   ELSE Done' /\ result' = [requeueAfter |-> RequeueNone,
                                            err |-> ErrNotFound]))]_vars

C10_Witness ==
    /\ Done
    /\ CountIn(calls, "Warning") = 1
    /\ Last(calls) = Call("Get", ErrNotFound)
    /\ result.err = ErrNotFound
    /\ config.labelSelector

----------------------------------------------------------------------------
(* The resolver's inputs, read off the working copy and the snapshot *)

PreferService == ~cr.spec.client.isNil /\ cr.spec.client.preferService

HasRoute == ~state.GrafanaRoute.isNil

HasIngress == ~state.GrafanaIngress.isNil

HasOverride == ~cr.spec.ingress.isNil /\ cr.spec.ingress.hostname # ""

HasEndpoint == Len(state.GrafanaIngress.lb) > 0

HasService == ~state.GrafanaService.isNil

\* the resolver has run: it produced the state to send or an error
Resolved == pc \in {"successSend", "manageError"}

\* a route or ingress rule applies
ExternalRule ==
    ~PreferService /\ (HasRoute \/ (HasIngress /\ (HasOverride \/ HasEndpoint)))

\* C11: with the service preference unset, a route gives https://<route-host>
\* whatever else exists; else an ingress with a non-empty hostname override
\* gives https://<override>; else an ingress with a load-balancer endpoint
\* gives https://<hostname of the first endpoint>, or https://<its ip> when
\* that hostname is empty; later endpoints play no part.
C11_UrlPriority ==
    (Resolved /\ ~PreferService)
        => /\ (HasRoute
                => pc = "successSend"
                   /\ pending.AdminUrl = <<"https://", state.GrafanaRoute.host>>)
           /\ ((~HasRoute /\ HasIngress /\ HasOverride)
                => pc = "successSend"
                   /\ pending.AdminUrl = <<"https://", cr.spec.ingress.hostname>>)
           /\ ((~HasRoute /\ HasIngress /\ ~HasOverride /\ HasEndpoint)
                => pc = "successSend"
                   /\ pending.AdminUrl =
                        <<"https://",
                          IF Head(state.GrafanaIngress.lb).hostname # ""
                          THEN Head(state.GrafanaIngress.lb).hostname
                          ELSE Head(state.GrafanaIngress.lb).ip>>)

C11_Witness ==
    /\ pc = "successSend"
    /\ ~PreferService
    /\ HasRoute /\ HasIngress /\ HasOverride /\ HasService
    /\ Len(state.GrafanaIngress.lb) > 1
    /\ pending.AdminUrl = <<"https://", "route.example">>

\* C12: with the service preference set, and whenever no route or ingress
\* rule applies, the result is http://<service>.<namespace>.svc.cluster.local:<port>
\* if a service exists; the resolver fails exactly when no rule applies and
\* no service exists.
C12_ServiceLastResort ==
    Resolved
        => /\ (PreferService /\ pc = "successSend")
                => pending.AdminUrl[1] = "http://"
           /\ (~ExternalRule /\ HasService)
                => /\ pc = "successSend"
                   /\ pending.AdminUrl =
                        <<"http://", state.GrafanaService.name, ".", Namespace,
                          ".svc.cluster.local:", cr.spec.port>>
           /\ (pc = "manageError") <=> (~ExternalRule /\ ~HasService)
           /\ (pc = "manageError") => issue = ErrAdminUrl

C12_Witness ==
    /\ pc = "successSend"
    /\ PreferService
    /\ HasRoute /\ HasIngress /\ HasOverride /\ HasService
    /\ pending.AdminUrl = <<"http://", "g", ".", "ns", ".svc.cluster.local:", 3000>>

\* C13: the ClientTimeout of a readiness=true event is 5 when the spec has no
\* client timeout or a negative one, and the spec's value when that is 0 or
\* more; a negative override does not send the cycle to the error path.
C13_TimeoutDefaulting ==
    [][/\ ((pc = "successSend" /\ pc' = "done")
            => (/\ Len(events') = Len(events) + 1
                /\ Last(events').GrafanaReady
                /\ Last(events').ClientTimeout =
                     IF \/ cr.spec.client.isNil
                        \/ cr.spec.client.timeoutIsNil
                        \/ cr.spec.client.timeoutSeconds < 0
                     THEN 5
                     ELSE cr.spec.client.timeoutSeconds))
       /\ ((/\ pc = "adminUrl" /\ pc' # "adminUrl"
            /\ ~cr.spec.client.isNil /\ ~cr.spec.client.timeoutIsNil
            /\ cr.spec.client.timeoutSeconds < 0
            /\ (ExternalRule \/ HasService))
            => (pc' = "successSend" /\ pending'.ClientTimeout = 5))]_vars

C13_Witness ==
    /\ pc = "done"
    /\ events # <<>>
    /\ Last(events).GrafanaReady
    /\ Last(events).ClientTimeout = 5
    /\ ~store.spec.client.isNil
    /\ ~store.spec.client.timeoutIsNil
    /\ store.spec.client.timeoutSeconds = -1

----------------------------------------------------------------------------
(* Order, concurrency and consistency *)

Before(op1, op2) ==
    \E i, j \in 1..Len(calls) : i < j /\ calls[i][1] = op1 /\ calls[j][1] = op2

\* C14: within an invocation the snapshot read comes before the action run,
\* no action is run (and no snapshot read) after a status write was issued,
\* and nothing is written or run after the invocation's event was sent.
C14_StepsSequential ==
    /\ ~Before("RunAll", "Read")
    /\ ~Before("Update", "Read")
    /\ ~Before("Update", "RunAll")
    /\ ~Before("Send", "Read")
    /\ ~Before("Send", "RunAll")
    /\ ~Before("Send", "Update")

C14_Witness ==
    /\ Done
    /\ calls = <<Call("Get", ErrNil), Call("Read", ErrNil), Call("RunAll", ErrNil),
                 Call("ConfigMaps", ErrNil), Call("Get", ErrNil),
                 Call("Update", ErrNil), Call("AdminUrl", ErrNil),
                 Call("Send", "true")>>

\* C15: the admin URL is resolved before the status is written, so a cycle
\* whose URL resolution fails has written no Reconciling/"success" status.
C15_UrlBeforeWrite ==
    \A j \in 1..Len(calls) :
        calls[j][1] = "AdminUrl"
            => \A i \in 1..(j - 1) : calls[i][1] # "Update"

\* C16: a status write issued after an external write landed since the
\* invocation's initial fetch is rejected, and the stored object stays as
\* the external writer left it.
C16_NoOverwrite ==
    [][(pc \in {"successUpdate", "errorUpdate"} /\ pc' # pc /\ written)
            => (/\ Last(calls')[1] = "Update"
                /\ Last(calls')[2] # ErrNil
                /\ store' = store)]_vars

C16_Witness ==
    /\ pc = "manageError"
    /\ Last(calls) = Call("Update", ErrConflict)
    /\ written
    /\ store.exists
    /\ store.spec # cr.spec

\* C17: a GrafanaReady=true event is sent only from the success path of an
\* invocation whose every call succeeded (read, run, discovery, re-fetch,
\* status write if any, URL resolution); it carries the URL resolved from
\* the invocation's snapshot and the selectors of the working copy. Every
\* event of the not-found and error paths has GrafanaReady=false.
C17_ReadyOnlyOnSuccess ==
    [][(Len(calls') = Len(calls) + 1 /\ Last(calls')[1] = "Send")
            => IF Last(events').GrafanaReady
               THEN /\ pc = "successSend"
                    /\ \A i \in 1..Len(calls) : calls[i][2] = ErrNil
                    /\ CountIn(calls, "Read") = 1 /\ CountIn(calls, "RunAll") = 1
                    /\ CountIn(calls, "ConfigMaps") = 1 /\ CountIn(calls, "AdminUrl") = 1
                    /\ CountIn(calls, "Warning") = 0
                    /\ Last(events').AdminUrl = getGrafanaAdminUrl(cr, state).url
                    /\ getGrafanaAdminUrl(cr, state).err = ErrNil
                    /\ Last(events').DashboardSelectors = cr.spec.dashboardLabelSelector
                    /\ Last(events').DashboardNamespaceSelector
                          = cr.spec.dashboardNamespaceSelector
               ELSE /\ pc \in {"notFoundSend", "errorSend"}
                    /\ Last(events') = NotReadyState]_vars

C17_Witness ==
    /\ Done
    /\ lastReady = "true"
    /\ events # <<>>
    /\ Last(events).GrafanaReady
    /\ Last(events).AdminUrl = <<"https://", "route.example">>
    /\ Last(events).DashboardSelectors = "selA"

\* C18 as stated: the status's dashboards are the inventory if the synced
\* flag is set; otherwise they become an empty list when neither the status
\* nor the inventory has a list yet, and an existing list is left unchanged.
C18_DashboardsDefault ==
    [][(pc = "manageSuccess" /\ pc' # pc)
            => IF config.synced
               THEN cr'.status.dashboards = config.dashboards
               ELSE IF cr.status.dashboards.isNil /\ config.dashboards.isNil
               THEN cr'.status.dashboards = EmptyList
               ELSE /\ cr'.status.dashboards = cr.status.dashboards
                    /\ config'.dashboards = config.dashboards]_vars

\* C18 amended: the status's dashboards are the inventory if the synced flag
\* is set; otherwise the status's dashboards are left as they are (nil stays
\* nil), and it is the process-wide inventory that becomes an empty list
\* when it is nil; an existing inventory is left unchanged.
C18_InventoryDefault ==
    [][(pc = "manageSuccess" /\ pc' # pc)
            => IF config.synced
               THEN /\ cr'.status.dashboards = config.dashboards
                    /\ config' = config
               ELSE /\ cr'.status.dashboards = cr.status.dashboards
                    /\ config'.dashboards =
                          IF config.dashboards.isNil THEN EmptyList
                          ELSE config.dashboards]_vars

C18_Witness ==
    /\ pc \in {"successUpdate", "adminUrl"}
    /\ cr.status.phase = PhaseReconciling
    /\ cr.status.dashboards.isNil
    /\ ~config.synced
    /\ config.dashboards = EmptyList

\* C19: at the end of an invocation, while the target exists, the stored
\* status and the latest event sent agree: Reconciling/"success" only with
\* GrafanaReady=true, Failing only with GrafanaReady=false.
C19_StatusMatchesReadiness ==
    (Done /\ store.exists /\ lastReady # "none")
        => /\ (store.status.phase = PhaseReconciling /\ store.status.message = "success")
                => lastReady = "true"
           /\ store.status.phase = PhaseFailing => lastReady = "false"

\* the delivery layer invokes Reconcile again: after the requeue delay, or
\* with backoff on an error
FollowUpDirected == result.requeueAfter = RequeueDelay \/ result.err # ErrNil

\* C20: convergence needs every invocation that found the target and left
\* it short of Reconciling/"success" with readiness sent to direct a
\* follow-up invocation; a return with an empty directive and no error in
\* such a state ends reconciliation for good under a delivery layer that
\* re-invokes only as directed.
C20_FollowUpUntilConverged ==
    (/\ Done
     /\ FirstFetch(calls, ErrNil)
     /\ store.exists
     /\ ~(/\ store.status.phase = PhaseReconciling
          /\ store.status.message = "success"
          /\ lastReady = "true"))
        => FollowUpDirected

====
